---- MODULE Spec2Model ----
(***************************************************************************)
(* Model of app_oauth.py: a Flask application that runs the Google OAuth2  *)
(* handshake per user, keeps one credential file per user under tokens/,   *)
(* and creates calendar events (fixed test events, or events extracted     *)
(* from a sentence by a chat-completion service).                          *)
(*                                                                         *)
(* Every request handler is one action.  What the handler reads from the   *)
(* request and what the external services answer are the action's inputs.  *)
(* The variable resp records the last request: its inputs, its outcome and *)
(* the external calls it made.                                             *)
(***************************************************************************)
EXTENDS Integers, Sequences, FiniteSets, TLC

\* ---------------------------------------------------------------- bounds
MaxTokens == 2      \* state tokens the authorization library generates in a run
MaxGrants == 2      \* distinct grants the authorization provider issues
MaxTime   == 2      \* distinct date-times a reply of the text service names
MaxIdLen  == 2      \* pieces of an attendee identifier
MaxItems  == 2      \* identifiers in a list given to normalize_attendees
MaxWriters == 2     \* saves in progress at the same time

\* ----------------------------------------------------------- value spaces
Users   == {"me", "alice", "bob"}
Clients == {"c1", "c2"}        \* browsers, each with its own session cookie
Tokens  == 1 .. MaxTokens
Grants  == 1 .. MaxGrants

\* Optional strings are integers: None (the key or parameter is missing), the
\* empty string, or a positive number standing for a non-empty text.
None     == 0
EmptyStr == -1

\* request.args.get("state") can be anything the caller puts in the URL
CallbackStates == {None, EmptyStr} \cup Tokens

\* Python truthiness of an optional string: None and "" are falsy
Truthy(s) == s \notin {None, EmptyStr}

\* ------------------------------------------------------------ credentials
\* flow.credentials after a successful code exchange that issued grant g
Credentials(g) == [token |-> g, refresh_token |-> g + MaxGrants]

\* Credentials.to_json(): the serialised text, one item per field
to_json(creds) == <<creds.token, creds.refresh_token>>

\* what a file of the token directory holds
NoFile == [exists |-> FALSE, data |-> <<>>]

\* mutant of token_path: one file for everybody
token_path_shared(user) == "me"

\* token_path(user): the file of the directory that belongs to user
token_path(user) == user

VARIABLES
    files,       \* tokens/<user>.json : [exists, data]
    session,     \* session["state"] of each client's cookie session
    nextToken,   \* number of state tokens generated so far, plus one
    resp,        \* the last request and its response
    pending,     \* history: the handshakes begun since the last callback request
    lastSaved,   \* history: the grant most recently saved per user, 0 if none
    writers      \* the saves in progress: file opened for writing, text not yet written

vars == <<files, session, nextToken, resp, pending, lastSaved, writers>>

\* save_credentials_for(user, creds): open(path, "w") and write the JSON text
save_credentials_for(fs, user, creds) ==
    [fs EXCEPT ![token_path(user)] = [exists |-> TRUE, data |-> to_json(creds)]]

\* Credentials.from_authorized_user_file: parse the text back; anything that
\* is not a complete record raises
WellFormed(data) == Len(data) = 2

from_authorized_user_file(data) == [token |-> data[1], refresh_token |-> data[2]]

\* load_credentials_for(user): None when the file does not exist
NoCredentials == [token |-> None, refresh_token |-> None]
LoadNone  == [kind |-> "none",  creds |-> NoCredentials]
LoadError == [kind |-> "error", creds |-> NoCredentials]

load_credentials_for(fs, user) ==
    LET p == token_path(user) IN
    IF ~fs[p].exists THEN LoadNone
    ELSE IF ~WellFormed(fs[p].data) THEN LoadError
    ELSE [kind |-> "creds", creds |-> from_authorized_user_file(fs[p].data)]

\* ------------------------------------------------------------------ strings
\* An identifier is a sequence of pieces: a blank, the at sign, or a word.
Blank == " "
At    == "@"

\* str.strip(): drop the blanks at both ends
RECURSIVE lstrip(_)
lstrip(x) == IF x # <<>> /\ Head(x) = Blank THEN lstrip(Tail(x)) ELSE x

RECURSIVE rstrip(_)
rstrip(x) ==
    IF x # <<>> /\ x[Len(x)] = Blank THEN rstrip(SubSeq(x, 1, Len(x) - 1)) ELSE x

strip(x) == rstrip(lstrip(x))

\* str.lower(): words written in capitals become their lower-case form
lower_piece(p) ==
    IF p = "ALICE" THEN "alice" ELSE IF p = "BOB" THEN "bob" ELSE p

lower(x) == [i \in 1 .. Len(x) |-> lower_piece(x[i])]

\* "@" in x
contains_at(x) == \E i \in 1 .. Len(x) : x[i] = At

AliceEmail == <<"alice_mail", At, "example.com">>
BobEmail   == <<"bob_mail", At, "example.com">>

\* NAME_TO_EMAIL: two Latin and two Korean names
NAME_TO_EMAIL ==
    [k \in {<<"alice">>, <<"bob">>, <<"ko_alice">>, <<"ko_bob">>} |->
        IF k \in {<<"alice">>, <<"ko_alice">>} THEN AliceEmail ELSE BobEmail]

\* dict.get(key, default)
dict_get(d, k, default) == IF k \in DOMAIN d THEN d[k] ELSE default

\* mutant of normalize_from: an address already in the output is not added again
RECURSIVE normalize_from_unique(_, _, _)
normalize_from_unique(items, i, out) ==
    IF i > Len(items) THEN out
    ELSE LET x == strip(items[i])
             a == [email |-> IF contains_at(x) THEN x
                             ELSE dict_get(NAME_TO_EMAIL, lower(x), x)]
         IN
         IF \E k \in DOMAIN out : out[k] = a
           THEN normalize_from_unique(items, i + 1, out)
           ELSE normalize_from_unique(items, i + 1, Append(out, a))

\* normalize_attendees(items): the loop, one item after the other
RECURSIVE normalize_from(_, _, _)
normalize_from(items, i, out) ==
    IF i > Len(items) THEN out
    ELSE LET x == strip(items[i]) IN
         IF contains_at(x)
           THEN normalize_from(items, i + 1, Append(out, [email |-> x]))
           ELSE normalize_from(items, i + 1,
                    Append(out, [email |-> dict_get(NAME_TO_EMAIL, lower(x), x)]))

normalize_attendees(items) == normalize_from(items, 1, <<>>)

\* ------------------------------------------------------------ the response
\* What a request did.  op/user/client and cbState are the request; token is
\* the state a begin generated; exchange tells whether fetch_token sent the
\* code to the provider, grant is the grant the provider issued for it;
\* outcome is the branch the handler returned from ("crash" is an exception no
\* handler catches: the framework answers 500); saved tells whether
\* save_credentials_for ran; authStep is the user whose /auth/<user> page the
\* answer names; follows places a callback among the handshakes begun before
\* it; calls are the calendar provider calls made, in order;
\* refused are the users whose calendar calls the provider refuses; results
\* are the per-user lines of the multi-user answer; text is the form field,
\* reply what the text service answered, draft what nlp_to_event_json
\* returned; event is the event body the handler built; items is the input of
\* a bare normalize_attendees call.
NoEvent == [summary |-> None, start |-> None, end |-> None, attendees |-> <<>>]

NoDraft == [kind |-> "-", summary |-> None, start |-> None, end |-> None,
            attendees |-> <<>>]

NoReply == [before |-> FALSE, json |-> "-", obj |-> NoDraft, after |-> FALSE]

NoResp ==
    [op |-> "none", user |-> "me", client |-> "c1", outcome |-> "none",
     cbState |-> None, token |-> None, exchange |-> FALSE, grant |-> None,
     follows |-> "-",
     saved |-> FALSE, authStep |-> "-", nlpCalled |-> FALSE, refused |-> {},
     calls |-> <<>>, results |-> <<>>, text |-> None, reply |-> NoReply,
     draft |-> NoDraft, event |-> NoEvent, items |-> <<>>]

Init ==
    /\ files = [u \in Users |-> NoFile]
    /\ session = [c \in Clients |-> None]
    /\ nextToken = 1
    /\ resp = NoResp
    /\ pending = <<>>
    /\ writers = {}
    /\ lastSaved = [u \in Users |-> None]

\* ------------------------------------------------------------- OAuth: begin
\* flow.authorization_url(): the library generates a fresh random state
authorization_url == nextToken

\* GET /auth/me
auth_me(c) ==
    /\ nextToken <= MaxTokens
    /\ LET state == authorization_url IN
       /\ session' = [session EXCEPT ![c] = state]
       /\ resp' = [NoResp EXCEPT !.op = "begin", !.user = "me", !.client = c,
                                 !.outcome = "redirect_provider", !.token = state]
    /\ nextToken' = nextToken + 1
    /\ pending' = Append(pending, [user |-> "me", client |-> c, token |-> nextToken])
    /\ UNCHANGED <<files, lastSaved, writers>>

\* mutant of auth_user: a state already in the session is kept
auth_user_keep_state(c, user) ==
    /\ nextToken <= MaxTokens
    /\ LET state == authorization_url IN
       /\ session' = IF Truthy(session[c]) THEN session
                     ELSE [session EXCEPT ![c] = state]
       /\ resp' = [NoResp EXCEPT !.op = "begin", !.user = user, !.client = c,
                                 !.outcome = "redirect_provider", !.token = state]
    /\ nextToken' = nextToken + 1
    /\ pending' = Append(pending, [user |-> user, client |-> c, token |-> nextToken])
    /\ UNCHANGED <<files, lastSaved, writers>>

\* mutant of auth_user: beginning a handshake removes the user's stored grant
auth_user_erase(c, user) ==
    /\ nextToken <= MaxTokens
    /\ LET state == authorization_url IN
       /\ session' = [session EXCEPT ![c] = state]
       /\ resp' = [NoResp EXCEPT !.op = "begin", !.user = user, !.client = c,
                                 !.outcome = "redirect_provider", !.token = state]
    /\ nextToken' = nextToken + 1
    /\ pending' = Append(pending, [user |-> user, client |-> c, token |-> nextToken])
    /\ files' = [files EXCEPT ![token_path(user)] = NoFile]
    /\ UNCHANGED <<lastSaved, writers>>

\* GET /auth/<user>
auth_user(c, user) ==
    /\ nextToken <= MaxTokens
    /\ LET state == authorization_url IN
       /\ session' = [session EXCEPT ![c] = state]
       /\ resp' = [NoResp EXCEPT !.op = "begin", !.user = user, !.client = c,
                                 !.outcome = "redirect_provider", !.token = state]
    /\ nextToken' = nextToken + 1
    /\ pending' = Append(pending, [user |-> user, client |-> c, token |-> nextToken])
    /\ UNCHANGED <<files, lastSaved, writers>>

\* mutant of fetch_token: the comparison of the two states is inverted
fetch_token_inverted(state, cbState, answer) ==
    IF Truthy(state) /\ cbState = state THEN "MismatchingStateError"
    ELSE IF answer = None THEN "ExchangeError"
    ELSE "token"

\* mutant of fetch_token: the two states are never compared
fetch_token_unchecked(state, cbState, answer) ==
    IF answer = None THEN "ExchangeError" ELSE "token"

\* ---------------------------------------------------------- OAuth: callback
\* flow.fetch_token(authorization_response=request.url) of a Flow built with
\* state=session.get("state").  The library compares the state of the URL
\* with the Flow's state only when the Flow's state is truthy
\* (oauthlib parse_authorization_code_response: "if state and
\* params.get('state') != state: raise MismatchingStateError"), then sends
\* the code to the provider; answer is the grant the provider issues, None
\* when it refuses the code.
fetch_token(state, cbState, answer) ==
    IF Truthy(state) /\ cbState # state THEN "MismatchingStateError"
    ELSE IF answer = None THEN "ExchangeError"
    ELSE "token"

\* @app.errorhandler(MismatchingStateError): redirect to the home page
handle_state_error == "StateMismatch"

\* History only: how a callback of client c for user with state cbState
\* relates to the handshakes begun since the last callback.  "fresh": it
\* directly follows the begin of c for user that generated cbState;
\* "superseded": c began a handshake for user that generated cbState and began
\* another one for user after it; "displaced": c began a handshake for user
\* that generated cbState and began one for another user after it.
Follows(c, user, cbState) ==
    LET mine(i) == pending[i].client = c /\ pending[i].user = user IN
    IF \E i, j \in DOMAIN pending :
           i < j /\ mine(i) /\ mine(j) /\ pending[i].token = cbState
      THEN "superseded"
    ELSE IF \E i, j \in DOMAIN pending :
           /\ i < j /\ mine(i) /\ pending[i].token = cbState
           /\ pending[j].client = c /\ pending[j].user # user
      THEN "displaced"
    ELSE IF /\ pending # <<>>
            /\ mine(Len(pending))
            /\ pending[Len(pending)].token = cbState
      THEN "fresh"
    ELSE "other"

\* GET /oauth2/callback/<user>
oauth2_callback_user(c, user, cbState, answer) ==
    LET base == [NoResp EXCEPT !.op = "complete", !.user = user, !.client = c,
                               !.cbState = cbState,
                               !.follows = Follows(c, user, cbState)]
        state == session[c]
        fetched == fetch_token(state, cbState, answer)
    IN
    /\ IF ~Truthy(cbState)
         THEN /\ resp' = [base EXCEPT !.outcome = "MissingState", !.authStep = user]
              /\ UNCHANGED <<files, lastSaved>>
       ELSE IF fetched = "MismatchingStateError"
         THEN /\ resp' = [base EXCEPT !.outcome = handle_state_error]
              /\ UNCHANGED <<files, lastSaved>>
       ELSE IF fetched = "ExchangeError"
         THEN /\ resp' = [base EXCEPT !.outcome = "crash", !.exchange = TRUE]
              /\ UNCHANGED <<files, lastSaved>>
       ELSE /\ files' = save_credentials_for(files, user, Credentials(answer))
            /\ lastSaved' = [lastSaved EXCEPT ![user] = answer]
            /\ resp' = [base EXCEPT !.outcome = "complete", !.exchange = TRUE,
                                    !.saved = TRUE, !.grant = answer]
    /\ pending' = <<>>
    /\ UNCHANGED <<session, nextToken, writers>>

\* GET /oauth2/callback/me: as above, then reads the primary calendar's name
\* (infoOK: the calendar provider answers) after the grant is saved
oauth2_callback_me(c, cbState, answer, infoOK) ==
    LET base == [NoResp EXCEPT !.op = "complete", !.user = "me", !.client = c,
                               !.cbState = cbState,
                               !.follows = Follows(c, "me", cbState)]
        state == session[c]
        fetched == fetch_token(state, cbState, answer)
    IN
    /\ IF ~Truthy(cbState)
         THEN /\ resp' = [base EXCEPT !.outcome = "MissingState", !.authStep = "me"]
              /\ UNCHANGED <<files, lastSaved>>
       ELSE IF fetched = "MismatchingStateError"
         THEN /\ resp' = [base EXCEPT !.outcome = handle_state_error]
              /\ UNCHANGED <<files, lastSaved>>
       ELSE IF fetched = "ExchangeError"
         THEN /\ resp' = [base EXCEPT !.outcome = "crash", !.exchange = TRUE]
              /\ UNCHANGED <<files, lastSaved>>
       ELSE /\ files' = save_credentials_for(files, "me", Credentials(answer))
            /\ lastSaved' = [lastSaved EXCEPT !["me"] = answer]
            /\ resp' = [base EXCEPT
                          !.outcome = IF infoOK THEN "complete" ELSE "crash",
                          !.exchange = TRUE, !.saved = TRUE, !.grant = answer,
                          !.refused = IF infoOK THEN {} ELSE {"me"},
                          !.calls = <<[api |-> "get", user |-> "me", ok |-> infoOK]>>]
    /\ pending' = <<>>
    /\ UNCHANGED <<session, nextToken, writers>>

NamedUsers == Users \ {"me"}    \* /auth/me and /oauth2/callback/me have their own routes

AuthMe == \E c \in Clients : auth_me(c)
AuthUser == \E c \in Clients, u \in NamedUsers : auth_user(c, u)
\* what the authorization provider answers to a code: a grant, or None
Answers == {None} \cup Grants

CallbackUser ==
    \E c \in Clients, u \in NamedUsers, s \in CallbackStates, answer \in Answers :
        oauth2_callback_user(c, u, s, answer)
CallbackMe ==
    \E c \in Clients, s \in CallbackStates, answer \in Answers, infoOK \in BOOLEAN :
        oauth2_callback_me(c, s, answer, infoOK)

Next ==
    \/ AuthMe
    \/ AuthUser
    \/ CallbackUser
    \/ CallbackMe

Spec == Init /\ [][Next]_vars

\* ------------------------------------------------- calendar: check & test
Now            == 0     \* datetime.now(KST) cut to the hour, in hours
DefaultSummary == 2     \* the placeholder summary of an extracted event
TestSummary    == 3     \* summary of the single-user test event
MultiSummary   == 4     \* summary of the multi-user test event

Call(api, user, ok) == [api |-> api, user |-> user, ok |-> ok]

\* GET /whoami/<user>
whoami(user, infoOK) ==
    LET base == [NoResp EXCEPT !.op = "whoami", !.user = user,
                               !.refused = IF infoOK THEN {} ELSE {user}]
        creds == load_credentials_for(files, user)
    IN
    /\ resp' = IF creds.kind = "none"
                 THEN [base EXCEPT !.outcome = "NotAuthorized", !.authStep = user]
               ELSE IF creds.kind = "error"
                 THEN [base EXCEPT !.outcome = "crash"]
               ELSE [base EXCEPT !.outcome = IF infoOK THEN "ok" ELSE "crash",
                                 !.calls = <<Call("get", user, infoOK)>>]
    /\ UNCHANGED <<files, session, nextToken, pending, lastSaved, writers>>

\* mutant of make_test_event: the missing grant is not checked
make_test_event_unchecked(insertOK) ==
    LET base == [NoResp EXCEPT !.op = "test_event", !.user = "me",
                               !.refused = IF insertOK THEN {} ELSE {"me"}]
        start == Now + 1
        event == [summary |-> TestSummary, start |-> start, end |-> start + 1,
                  attendees |-> <<>>]
    IN
    /\ resp' = [base EXCEPT !.outcome = IF insertOK THEN "created" ELSE "crash",
                            !.event = event,
                            !.calls = <<Call("insert", "me", insertOK)>>]
    /\ UNCHANGED <<files, session, nextToken, pending, lastSaved, writers>>

\* GET /make_test_event
make_test_event(insertOK) ==
    LET base == [NoResp EXCEPT !.op = "test_event", !.user = "me",
                               !.refused = IF insertOK THEN {} ELSE {"me"}]
        creds == load_credentials_for(files, "me")
        start == Now + 1
        end == start + 1
        event == [summary |-> TestSummary, start |-> start, end |-> end,
                  attendees |-> <<>>]
    IN
    /\ resp' = IF creds.kind = "none"
                 THEN [base EXCEPT !.outcome = "NotAuthorized", !.authStep = "me"]
               ELSE IF creds.kind = "error"
                 THEN [base EXCEPT !.outcome = "crash"]
               ELSE [base EXCEPT !.outcome = IF insertOK THEN "created" ELSE "crash",
                                 !.event = event,
                                 !.calls = <<Call("insert", "me", insertOK)>>]
    /\ UNCHANGED <<files, session, nextToken, pending, lastSaved, writers>>

\* mutant of multi_loop: the loop ends at the first user without a grant
RECURSIVE multi_loop_break(_, _, _, _, _)
multi_loop_break(fs, users, i, refused, acc) ==
    IF i > Len(users) THEN acc
    ELSE LET user == users[i]
             creds == load_credentials_for(fs, user)
         IN
         IF creds.kind = "none"
           THEN [acc EXCEPT !.results = Append(@,
                    [user |-> user, outcome |-> "NotAuthorized", authStep |-> user])]
         ELSE IF creds.kind = "error"
           THEN [acc EXCEPT !.raised = TRUE]
         ELSE IF user \in refused
           THEN [acc EXCEPT !.raised = TRUE,
                            !.calls = Append(@, Call("insert", user, FALSE))]
         ELSE multi_loop_break(fs, users, i + 1, refused,
                  [acc EXCEPT !.calls = Append(@, Call("insert", user, TRUE)),
                              !.results = Append(@,
                        [user |-> user, outcome |-> "created", authStep |-> "-"])])

\* the loop of make_test_event_multi from the i-th user on; acc holds the
\* result lines and the provider calls so far.  An insert the provider refuses
\* raises, and nothing catches it: the loop ends there.
RECURSIVE multi_loop(_, _, _, _, _)
multi_loop(fs, users, i, refused, acc) ==
    IF i > Len(users) THEN acc
    ELSE LET user == users[i]
             creds == load_credentials_for(fs, user)
         IN
         IF creds.kind = "none"
           THEN multi_loop(fs, users, i + 1, refused,
                    [acc EXCEPT !.results = Append(@,
                        [user |-> user, outcome |-> "NotAuthorized", authStep |-> user])])
         ELSE IF creds.kind = "error"
           THEN [acc EXCEPT !.raised = TRUE]
         ELSE IF user \in refused
           THEN [acc EXCEPT !.raised = TRUE,
                            !.calls = Append(@, Call("insert", user, FALSE))]
         ELSE multi_loop(fs, users, i + 1, refused,
                  [acc EXCEPT !.calls = Append(@, Call("insert", user, TRUE)),
                              !.results = Append(@,
                        [user |-> user, outcome |-> "created", authStep |-> "-"])])

MultiUsers == <<"alice", "bob">>

\* GET /make_test_event_multi
make_test_event_multi(refused) ==
    LET start == Now + 2
        end == start + 1
        attendees == normalize_attendees(<<<<"alice">>, <<"bob">>>>)
        event == [summary |-> MultiSummary, start |-> start, end |-> end,
                  attendees |-> attendees]
        done == multi_loop(files, MultiUsers, 1, refused,
                           [results |-> <<>>, calls |-> <<>>, raised |-> FALSE])
    IN
    /\ resp' = [NoResp EXCEPT !.op = "multi", !.user = "-", !.refused = refused,
                              !.event = event,
                              !.calls = done.calls,
                              !.outcome = IF done.raised THEN "crash" ELSE "ok",
                              !.results = IF done.raised THEN <<>> ELSE done.results]
    /\ UNCHANGED <<files, session, nextToken, pending, lastSaved, writers>>

\* -------------------------------------------- natural language -> calendar
\* A reply of the text service: maybe prose, then maybe one JSON value (an
\* object with the fields obj, or a value that is not an object), then maybe
\* prose.  An object's missing or null field is None.
Times == 1 .. MaxTime

Objects ==
    [kind : {"dict"}, summary : {None, EmptyStr, 1},
     start : {None, EmptyStr} \cup Times, end : {None, EmptyStr} \cup Times,
     attendees : {<<>>, <<<<"ALICE">>>>, <<<<Blank, "zed">>, <<"zed", At, "zed">>>>}]

EmptyDict == [NoDraft EXCEPT !.kind = "dict"]

Replies ==
    [before : BOOLEAN, json : {"object"}, obj : Objects, after : BOOLEAN]
    \cup [before : BOOLEAN, json : {"value", "none"}, obj : {NoDraft}, after : BOOLEAN]

\* json.loads(content): the whole text must be one JSON value
json_loads(content) ==
    IF content.before \/ content.after \/ content.json = "none"
      THEN [NoDraft EXCEPT !.kind = "JSONDecodeError"]
    ELSE IF content.json = "object" THEN content.obj
    ELSE [NoDraft EXCEPT !.kind = "value"]

\* nlp_to_event_json(user_text): the reply parsed, {} when it does not parse;
\* a failing service call raises
nlp_to_event_json(svcOK, content) ==
    IF ~svcOK THEN [NoDraft EXCEPT !.kind = "ServiceError"]
    ELSE LET parsed == json_loads(content) IN
         IF parsed.kind = "JSONDecodeError" THEN EmptyDict ELSE parsed

\* mutant of missing_time: "and" in place of "or"
missing_time_both(start_iso, end_iso) == ~Truthy(start_iso) /\ ~Truthy(end_iso)

\* "if not start_iso or not end_iso": a required value is missing
missing_time(start_iso, end_iso) == ~Truthy(start_iso) \/ ~Truthy(end_iso)

\* POST /nlp_event/<user>
nlp_event(user, text, svcOK, content, insertOK) ==
    LET creds == load_credentials_for(files, user)
        base == [NoResp EXCEPT !.op = "nlp", !.user = user, !.text = text]
        parsed == nlp_to_event_json(svcOK, content)
        called == [base EXCEPT !.nlpCalled = TRUE,
                               !.reply = IF svcOK THEN content ELSE NoReply,
                               !.draft = parsed]
        start_iso == parsed.start
        end_iso == parsed.end
        summary == IF Truthy(parsed.summary) THEN parsed.summary ELSE DefaultSummary
        attendees_raw == parsed.attendees
        event == [summary |-> summary, start |-> start_iso, end |-> end_iso,
                  attendees |-> normalize_attendees(attendees_raw)]
    IN
    /\ resp' = IF creds.kind = "none"
                 THEN [base EXCEPT !.outcome = "NotAuthorized", !.authStep = user]
               ELSE IF creds.kind = "error"
                 THEN [base EXCEPT !.outcome = "crash"]
               ELSE IF ~Truthy(text)
                 THEN [base EXCEPT !.outcome = "MissingText"]
               ELSE IF parsed.kind # "dict"
                 THEN [called EXCEPT !.outcome = "crash"]
               ELSE IF missing_time(start_iso, end_iso)
                 THEN [called EXCEPT !.outcome = "IncompleteDraft", !.event = event]
               ELSE [called EXCEPT
                       !.outcome = IF insertOK THEN "created" ELSE "crash",
                       !.event = event,
                       !.refused = IF insertOK THEN {} ELSE {user},
                       !.calls = <<Call("insert", user, insertOK)>>]
    /\ UNCHANGED <<files, session, nextToken, pending, lastSaved, writers>>

\* ------------------------------------------------- the dispatch handlers
\* These handlers read the token directory and write nothing, so a request
\* behaves the same whatever requests came before it: the specification runs
\* one request from every state of the token directory the handshakes can
\* leave behind.
StoredFile(g) == [exists |-> TRUE, data |-> to_json(Credentials(g))]

InitDispatch ==
    /\ lastSaved \in [Users -> {None} \cup Grants]
    /\ files = [u \in Users |->
                  IF lastSaved[u] = None THEN NoFile ELSE StoredFile(lastSaved[u])]
    /\ session = [c \in Clients |-> None]
    /\ nextToken = 1
    /\ resp = NoResp
    /\ pending = <<>>
    /\ writers = {}

FirstRequest == resp.op = "none"

WhoAmI == FirstRequest /\ \E u \in Users, infoOK \in BOOLEAN : whoami(u, infoOK)
MakeTestEvent == FirstRequest /\ \E insertOK \in BOOLEAN : make_test_event(insertOK)
MakeTestEventMulti ==
    FirstRequest /\ \E refused \in SUBSET NamedUsers : make_test_event_multi(refused)
NlpEvent ==
    /\ FirstRequest
    /\ \E u \in Users, text \in {None, EmptyStr, 1}, svcOK \in BOOLEAN,
          content \in Replies, insertOK \in BOOLEAN :
           nlp_event(u, text, svcOK, content, insertOK)

NextDispatch ==
    \/ WhoAmI
    \/ MakeTestEvent
    \/ MakeTestEventMulti
    \/ NlpEvent

SpecDispatch == InitDispatch /\ [][NextDispatch]_vars

\* ------------------------------------------- normalize_attendees on its own
Pieces == {Blank, At, "ALICE", "zed"}

SeqsUpTo(S, n) == UNION {[1 .. k -> S] : k \in 0 .. n}

Identifiers == SeqsUpTo(Pieces, MaxIdLen)

InitNormalize ==
    /\ files = [u \in Users |-> NoFile]
    /\ lastSaved = [u \in Users |-> None]
    /\ session = [c \in Clients |-> None]
    /\ nextToken = 1
    /\ pending = <<>>
    /\ writers = {}
    /\ \E items \in SeqsUpTo(Identifiers, MaxItems) :
           resp = [NoResp EXCEPT !.op = "items", !.items = items]

Normalize ==
    /\ resp.op = "items"
    /\ resp' = [resp EXCEPT !.op = "normalize",
                            !.event.attendees = normalize_attendees(resp.items)]
    /\ UNCHANGED <<files, session, nextToken, pending, lastSaved, writers>>

NextNormalize == Normalize

SpecNormalize == InitNormalize /\ [][NextNormalize]_vars

\* ------------------------------------------ the token directory on its own
\* save_credentials_for works on the file in two steps: open(path, "w")
\* creates the file or cuts it to length 0; the text reaches the file when the
\* with block ends and the file is closed.  Requests are served by threads (and
\* worker processes) that share the directory, so the steps of a save
\* interleave with the loads and saves of other requests.

\* mutant of open_w: every file of the directory is cut to length 0
open_w_all(fs, user) ==
    [p \in DOMAIN fs |->
        IF p = token_path(user) \/ fs[p].exists
          THEN [exists |-> TRUE, data |-> <<>>] ELSE fs[p]]

\* open(token_path(user), "w")
open_w(fs, user) ==
    [fs EXCEPT ![token_path(user)] = [exists |-> TRUE, data |-> <<>>]]

\* f.write(text) and the close that ends the with block: the text is written
\* from the start of the file on
write(fs, user, text) ==
    [fs EXCEPT ![token_path(user)].data = text \o SubSeq(@, Len(text) + 1, Len(@))]

\* save_credentials_for(user, creds), line 58: the file is opened
SaveOpen ==
    \E user \in Users, g \in Grants :
        LET w == [user |-> user, grant |-> g] IN
        /\ Cardinality(writers) < MaxWriters
        /\ w \notin writers
        /\ files' = open_w(files, user)
        /\ writers' = writers \cup {w}
        /\ resp' = [NoResp EXCEPT !.op = "save_open", !.user = user, !.grant = g]
        /\ UNCHANGED <<session, nextToken, pending, lastSaved>>

\* save_credentials_for(user, creds), line 59: the text is written and the
\* file closed
SaveWrite ==
    \E w \in writers :
        /\ files' = write(files, w.user, to_json(Credentials(w.grant)))
        /\ writers' = writers \ {w}
        /\ lastSaved' = [lastSaved EXCEPT ![w.user] = w.grant]
        /\ resp' = [NoResp EXCEPT !.op = "save_write", !.user = w.user,
                                  !.grant = w.grant, !.saved = TRUE]
        /\ UNCHANGED <<session, nextToken, pending>>

\* load_credentials_for(user), as any handler calls it
Load ==
    \E user \in Users :
        LET creds == load_credentials_for(files, user) IN
        /\ resp' = [NoResp EXCEPT !.op = "load", !.user = user,
                                  !.outcome = creds.kind,
                                  !.grant = creds.creds.token]
        /\ UNCHANGED <<files, session, nextToken, pending, lastSaved, writers>>

NextStore ==
    \/ SaveOpen
    \/ SaveWrite
    \/ Load

SpecStore == Init /\ [][NextStore]_vars

\* ------------------------------------------------------------------ claims
\* the answer load gives for a user whose file holds grant g
Loaded(g) == [kind |-> "creds", creds |-> Credentials(g)]

\* C1: a callback whose state is missing, or present but different from the
\* state stored in the caller's session, leaves every user's credential file
\* as it was.
C1_RejectedCallbackKeepsStore ==
    [][ (/\ resp'.op = "complete"
         /\ \/ ~Truthy(resp'.cbState)
            \/ resp'.cbState # session[resp'.client])
        => \A u \in Users :
               load_credentials_for(files', u) = load_credentials_for(files, u) ]_vars

\* C2: a begin for user u directly followed, in the same session, by the
\* callback for u that carries the state the begin generated, reaches the
\* code exchange; when the provider exchanges the code, the grant is saved,
\* load(u) then returns it, and the answer is the completion page (for "me":
\* unless the calendar read that follows the save fails).
C2_BeginThenCompleteSucceeds ==
    [][ (/\ resp.op = "begin"
         /\ resp'.op = "complete"
         /\ resp'.client = resp.client
         /\ resp'.user = resp.user
         /\ resp'.cbState = resp.token)
        => /\ resp'.exchange
           /\ resp'.grant # None =>
                /\ resp'.saved
                /\ load_credentials_for(files', resp'.user) = Loaded(resp'.grant)
                /\ \/ resp'.outcome = "complete"
                   \/ \E i \in DOMAIN resp'.calls : ~resp'.calls[i].ok ]_vars

C2_Witness ==
    /\ resp.op = "complete"
    /\ resp.follows = "fresh"
    /\ resp.outcome = "complete"
    /\ load_credentials_for(files, resp.user) = Loaded(resp.grant)

C4_BeginKeepsStore ==
    [][ /\ resp'.op = "begin" =>
             \A u \in Users :
                 load_credentials_for(files', u) = load_credentials_for(files, u)
        /\ files' # files =>
             (/\ resp'.op = "complete"
              /\ Truthy(resp'.cbState)
              /\ resp'.exchange
              /\ resp'.grant # None) ]_vars

C4_Witness ==
    /\ resp.op = "begin"
    /\ load_credentials_for(files, resp.user) = Loaded(MaxGrants)

\* C5: load(u) returns the grant most recently saved for u, and None (no
\* error) for a user nothing was saved for.
C5_LoadReturnsLastSaved ==
    \A u \in Users :
        load_credentials_for(files, u) =
            IF lastSaved[u] = None THEN LoadNone ELSE Loaded(lastSaved[u])

C5_Witness ==
    /\ resp.op = "complete"
    /\ resp.saved
    /\ \E u \in Users : lastSaved[u] = None
    /\ \E u, v \in Users : /\ u # v
                           /\ lastSaved[u] # None
                           /\ lastSaved[v] # None
                           /\ lastSaved[u] # lastSaved[v]

\* whether the calendar provider was asked to insert an event with u's grant
InsertCalledFor(u) ==
    \E i \in DOMAIN resp.calls : resp.calls[i].api = "insert" /\ resp.calls[i].user = u

C7_NoGrantNotAuthorized ==
    /\ (resp.op \in {"whoami", "test_event", "nlp"} /\ ~files[resp.user].exists)
       => /\ resp.outcome = "NotAuthorized"
          /\ resp.authStep = resp.user
          /\ resp.calls = <<>>
          /\ ~resp.nlpCalled
    /\ resp.op = "multi"
       => \A i \in DOMAIN resp.calls : files[resp.calls[i].user].exists

C7_Witness ==
    /\ resp.op = "nlp"
    /\ resp.text = 1
    /\ ~files[resp.user].exists
    /\ resp.outcome = "NotAuthorized"
    /\ \E u \in Users : files[u].exists

\* C8: when the provider refuses no insert, the multi-user request reports
\* one line per user, in list order: NotAuthorized naming the user when the
\* user has no credential file, created (with the event's link) otherwise,
\* and the event is inserted for every user who has a file.
C8_MultiReportsEveryUser ==
    (/\ resp.op = "multi"
     /\ \A u \in resp.refused : ~files[u].exists)
    => /\ Len(resp.results) = Len(MultiUsers)
       /\ \A i \in DOMAIN MultiUsers :
            LET u == MultiUsers[i] IN
            /\ resp.results[i].user = u
            /\ IF files[u].exists
                 THEN resp.results[i].outcome = "created" /\ InsertCalledFor(u)
                 ELSE /\ resp.results[i].outcome = "NotAuthorized"
                      /\ resp.results[i].authStep = u
                      /\ ~InsertCalledFor(u)

C8_Witness ==
    /\ resp.op = "multi"
    /\ ~files["alice"].exists
    /\ files["bob"].exists
    /\ Len(resp.results) = 2
    /\ resp.results[1].outcome = "NotAuthorized"
    /\ resp.results[2].outcome = "created"

\* C9: in the multi-user request every user of the list gets a line in the
\* answer and every user who has a credential file gets the insert call, also
\* when the provider refuses the insert of one of them.
C9_ProviderFailureDoesNotBlockOthers ==
    resp.op = "multi"
    => /\ Len(resp.results) = Len(MultiUsers)
       /\ \A i \in DOMAIN MultiUsers :
            files[MultiUsers[i]].exists => InsertCalledFor(MultiUsers[i])

\* the names of the table that match x without regard to case
Matching(x) == {k \in DOMAIN NAME_TO_EMAIL : lower(k) = lower(x)}

\* the address the resolver is to give for identifier x
Resolved(x) ==
    IF \E i \in DOMAIN x : x[i] = At THEN x
    ELSE IF Matching(x) # {} THEN NAME_TO_EMAIL[CHOOSE k \in Matching(x) : TRUE]
    ELSE x

NonEmptyItems == \A i \in DOMAIN resp.items : resp.items[i] # <<>>

\* every identifier has something else than blanks in it
NonBlankItems == \A i \in DOMAIN resp.items : strip(resp.items[i]) # <<>>

\* C10 as stated: for a list of non-empty identifiers (here: with more than
\* blanks in them) the output has the length of the input and its i-th entry
\* is the i-th identifier itself when that contains "@", else the table's
\* address for the name it matches without regard to case, else the
\* identifier itself.
C10_NormalizeKeepsOrderAndItems ==
    (resp.op = "normalize" /\ NonBlankItems)
    => /\ Len(resp.event.attendees) = Len(resp.items)
       /\ \A i \in DOMAIN resp.items :
            resp.event.attendees[i].email = Resolved(resp.items[i])

\* C10 amended: for a list of non-empty identifiers the output has the length
\* of the input and its i-th entry is decided as above by the i-th
\* identifier taken without the blanks around it.
C10_NormalizeKeepsOrderAndTrimmedItems ==
    (resp.op = "normalize" /\ NonEmptyItems)
    => /\ Len(resp.event.attendees) = Len(resp.items)
       /\ \A i \in DOMAIN resp.items :
            resp.event.attendees[i].email = Resolved(strip(resp.items[i]))

C10_Witness ==
    /\ resp.op = "normalize"
    /\ resp.items = <<<<"ALICE", Blank>>, <<"zed", At>>, <<"ALICE", Blank>>>>
                    \/ resp.items = <<<<"ALICE", Blank>>, <<"ALICE", Blank>>>>
    /\ \A i \in DOMAIN resp.items :
           resp.items[i] = <<"ALICE", Blank>> =>
               resp.event.attendees[i] = [email |-> AliceEmail]

\* C11: when the text service's reply contains a JSON object, alone or with
\* prose before or after it, the draft the extractor returns has exactly the
\* fields of that object.
C11_ReplyObjectIsExtracted ==
    (/\ resp.op = "nlp"
     /\ resp.nlpCalled
     /\ resp.reply.json = "object")
    => resp.draft = resp.reply.obj

\* C12: when the text service's reply holds no JSON object at all, the
\* extractor returns no draft and the request is not answered IncompleteDraft,
\* the answer of a well-formed draft without start or end.
C12_MalformedReplyIsSignalled ==
    (/\ resp.op = "nlp"
     /\ resp.nlpCalled
     /\ resp.reply.json = "none")
    => /\ resp.draft.kind # "dict"
       /\ resp.outcome # "IncompleteDraft"

\* C15: every event the calendar provider is asked to insert has a start and
\* an end, and its start is before its end.
C15_InsertOnlyWithStartBeforeEnd ==
    (\E u \in Users : InsertCalledFor(u))
    => /\ Truthy(resp.event.start)
       /\ Truthy(resp.event.end)
       /\ resp.event.start < resp.event.end

\* C13: whatever steps of saves for a user come before it, a load for that
\* user answers with a whole record: absent when nothing was saved before, or
\* the grant of the last finished save, or the grant of a save in progress;
\* never an error over an empty or half-written file.
C13_LoadSeesWholeRecord ==
    resp.op = "load" =>
        \/ resp.outcome = "none" /\ lastSaved[resp.user] = None
        \/ /\ resp.outcome = "creds"
           /\ \/ resp.grant = lastSaved[resp.user]
              \/ \E w \in writers : w.user = resp.user /\ w.grant = resp.grant

\* C14: the directory holds one file per user; a step of a save for user u
\* leaves the file of every other user as it is, also while saves for other
\* users are in progress; the finished save leaves exactly its grant in u's
\* file; and no step makes an existing file disappear.
C14_SaveIsUserLocal ==
    [][ /\ \A v \in Users : files[v].exists => files'[v].exists
        /\ \A w \in writers' \ writers :
              \A v \in Users \ {w.user} : files'[v] = files[v]
        /\ \A w \in writers \ writers' :
              /\ \A v \in Users \ {w.user} : files'[v] = files[v]
              /\ load_credentials_for(files', w.user) = Loaded(w.grant) ]_vars

C14_Witness ==
    /\ resp.op = "save_write"
    /\ \E w \in writers :
          /\ w.user # resp.user
          /\ lastSaved[w.user] # None
          /\ files[w.user].data = <<>>
    /\ \E v \in Users :
          /\ v # resp.user
          /\ \A w \in writers : w.user # v
          /\ load_credentials_for(files, v) = Loaded(lastSaved[v])
    /\ load_credentials_for(files, resp.user) = Loaded(resp.grant)

C17_TokenIsOneTime ==
    [][ (/\ resp.op = "complete"
         /\ resp.follows = "fresh"
         /\ resp.outcome = "complete"
         /\ session[resp.client] = resp.cbState
         /\ resp'.op = "complete"
         /\ resp'.client = resp.client
         /\ resp'.user = resp.user
         /\ resp'.cbState = resp.cbState)
        => (~resp'.exchange /\ files' = files) ]_vars

\* C18: the output of normalize has one entry per identifier that has more
\* than blanks in it, and no entry with an empty address.
C18_BlankIdentifiersDropped ==
    resp.op = "normalize"
    => /\ \A i \in DOMAIN resp.event.attendees :
              resp.event.attendees[i].email # <<>>
       /\ Len(resp.event.attendees) =
              Cardinality({i \in DOMAIN resp.items : strip(resp.items[i]) # <<>>})

\* C19: a callback that arrives in a session in which no begin has stored a
\* state does not reach the code exchange and changes no credential file,
\* whatever state it carries.
C19_NoRecordedTokenNoExchange ==
    [][ (/\ resp'.op = "complete"
         /\ session[resp'.client] = None)
        => (~resp'.exchange /\ files' = files) ]_vars

\* C20: a callback for user u2 that carries the state generated by a begin of
\* the same session for another user u1 does not reach the code exchange and
\* changes no credential file.
C20_TokenBoundToItsUser ==
    [][ resp'.op = "complete" =>
          \A i \in DOMAIN pending :
              (/\ pending[i].user # resp'.user
               /\ pending[i].client = resp'.client
               /\ pending[i].token = resp'.cbState)
              => (~resp'.exchange /\ files' = files) ]_vars

====
